---- MODULE Spec2Model ----
(***************************************************************************)
(* Model of backend/data/data_layer.py: UnifiedDataLayer, the unified      *)
(* data-access layer with a TTL cache and a circuit breaker in front of    *)
(* the Lakebase (primary) executor and the SQL Warehouse (fallback).       *)
(*                                                                         *)
(* execute_query is modelled as a sequence of steps per calling thread:    *)
(*   idle -> lookup -> select -> getconn -> executing -> except            *)
(*        -> warehouse -> done -> idle                                     *)
(* The clock `now` stands for time.time(); it advances in quanta of        *)
(* TimeStep seconds, while a thread waits for a connection or a backend    *)
(* (getconn, executing, warehouse) and between calls.  The in-memory       *)
(* steps of a call (cache lookup, availability check, except clause,       *)
(* return) read the clock at the resolution of one quantum.                *)
(* _lakebase_last_failure is written by _record_lakebase_failure and read  *)
(* nowhere; it is left out of the state.                                   *)
(* The variables streak, clean, prev, tracking, observed and close_error,   *)
(* and the fields gate, lookup, lb_calls, wh_calls, lb_error, wh_outcome   *)
(* and failures_before of a frame are history: they record what happened   *)
(* and steer nothing.                                                      *)
(*                                                                         *)
(* Specifications:                                                         *)
(*   Spec, SpecPairs  calls of execute_query, clear_cache, close and reads *)
(*                    of lakebase_available, one at a time;                *)
(*   SpecOps          the same with check_table_access and                 *)
(*                    get_performance_comparison;                          *)
(*   SpecConc         two threads whose calls of execute_query and         *)
(*                    clear_cache interleave, _get_cached step by step;    *)
(*   SpecLive         calls one at a time with a clock that never stops,   *)
(*                    a primary that recovers, and fairness;               *)
(*   SpecTranslate    the identifier translator on bounded texts.          *)
(***************************************************************************)
EXTENDS Integers, Sequences, FiniteSets, TLC

\* ---------------------------------------------------------------- bounds
TimeStep == 60
MaxTime == 120

\* ------------------------------------------------------ program constants
failure_threshold == 3
circuit_reset_timeout == 60
\* cache_ttl is configured (CACHE_TTL, default 300 s); the model runs with a TTL
\* of two clock quanta.
cache_ttl == 120

Procs == {"t1"}

None == "None"
LAKEBASE == "lakebase"
WAREHOUSE == "warehouse"

\* Inputs of execute_query: (query, params) pairs.  str(params or "") is
\* the text appended to the query in _get_cache_key.
Q1 == "SELECT 1"
Q2 == "SELECT 1{'id': 1}"
P1 == "{'id': 1}"
Inputs == {<<Q1, None>>, <<Q1, P1>>, <<Q2, None>>}

\* --------------------------------------------------- identifier translator
\* Query texts are sequences of tokens: words, ".", "_" and " ".
\* TABLE_MAPPINGS, in insertion order.
TABLE_MAPPINGS == <<
    << <<"system", ".", "lakeflow", ".", "jobs">>,
       <<"jobs", "_", "monitor", ".", "synced", ".", "jobs">> >>,
    << <<"system", ".", "lakeflow", ".", "job_run_timeline">>,
       <<"jobs", "_", "monitor", ".", "synced", ".", "job_run_timeline">> >>,
    << <<"system", ".", "lakeflow", ".", "job_task_run_timeline">>,
       <<"jobs", "_", "monitor", ".", "synced", ".", "job_task_run_timeline">> >>,
    << <<"system", ".", "billing", ".", "usage">>,
       <<"jobs", "_", "monitor", ".", "synced", ".", "billing", "_", "usage">> >>,
    << <<"system", ".", "billing", ".", "list_prices">>,
       <<"jobs", "_", "monitor", ".", "synced", ".", "list_prices">> >>,
    << <<"system", ".", "compute", ".", "clusters">>,
       <<"jobs", "_", "monitor", ".", "synced", ".", "clusters">> >> >>

\* catalog = "hls_amer_catalog", schema = "cost_management" (the defaults)
DefaultConfig == <<"hls_amer_catalog", "cost_management">>

\* f"{self.catalog}.{self.schema}."
ConfigPrefix(catalog, schema) == <<catalog, ".", schema, ".">>

\* "jobs_monitor.cost_management."
LakebasePrefix == <<"jobs", "_", "monitor", ".", "cost_management", ".">>

\* str.replace(old, new): every non-overlapping occurrence, left to right.
RECURSIVE Replace(_, _, _)
Replace(s, old, new) ==
    IF Len(s) < Len(old) THEN s
    ELSE IF SubSeq(s, 1, Len(old)) = old
         THEN new \o Replace(SubSeq(s, Len(old) + 1, Len(s)), old, new)
         ELSE <<Head(s)>> \o Replace(Tail(s), old, new)

\* The loop over TABLE_MAPPINGS.items(), first n mappings applied in order.
RECURSIVE ApplyMappings(_, _)
ApplyMappings(s, n) ==
    IF n = 0 THEN s
    ELSE Replace(ApplyMappings(s, n - 1), TABLE_MAPPINGS[n][1], TABLE_MAPPINGS[n][2])

\* _translate_query_for_lakebase
translate_keeps_prefix(query, catalog, schema) ==
    Replace(ApplyMappings(query, Len(TABLE_MAPPINGS)),
            ConfigPrefix(catalog, schema),
            <<"jobs", "_", "monitor", ".">> \o ConfigPrefix(catalog, schema))
translate_query_for_lakebase(query, catalog, schema) ==
    Replace(ApplyMappings(query, Len(TABLE_MAPPINGS)),
            ConfigPrefix(catalog, schema), LakebasePrefix)

VARIABLES
    now,                  \* time.time()
    lakebase_flag,        \* self._lakebase_available
    lakebase_pool,        \* self._lakebase_pool: "none" | "open" | "closed"
    checked_out,          \* connections taken from the pool and not yet returned
    cache,                \* self._cache: key -> NoEntry | [result, timestamp]
    lakebase_failures,    \* self._lakebase_failures
    circuit_open,         \* self._circuit_open
    circuit_open_time,    \* self._circuit_open_time
    pc,                   \* position of each thread inside execute_query
    frame,                \* arguments/locals of the call in progress, and its record
    ret,                  \* outcome of the call: returned result or raised error
    streak,               \* history: consecutive failed primary attempts of execute_query
    clean,                \* history: the streak began with counter 0 and circuit closed
    prev,                 \* history: an earlier successful call that used the cache
    tracking,             \* history: whether pairs of calls are recorded in prev
    text,                 \* a query text handed to the identifier translator
    config,               \* <<catalog, schema>> of the data layer
    translations,         \* the texts obtained by translating `text` repeatedly
    scan,                 \* check_table_access in progress: position and results
    perf,                 \* get_performance_comparison in progress: position and results
    healed,               \* environment: from now on every primary execution succeeds
    alias,                \* whether the result a thread holds is the object in the cache
    observed,             \* history: the last operation, if a property read or clear_cache()
    close_error           \* history: a close() raised, since the last execute_query

vars == <<now, lakebase_flag, lakebase_pool, checked_out, cache, lakebase_failures,
          circuit_open, circuit_open_time, pc, frame, ret, streak, clean, prev, tracking,
          text, config, translations, scan, perf, healed, alias, observed, close_error>>

breaker == <<lakebase_failures, circuit_open, circuit_open_time>>
xlate == <<text, config, translations>>
ops == <<scan, perf, healed>>
hist0 == <<streak, clean, prev, tracking, xlate, ops>>
hist == <<hist0, alias, observed, close_error>>

\* ------------------------------------------------------------ data model
NoEntry == [absent |-> TRUE]
NoResult == [absent |-> TRUE]
NoPrev == [absent |-> TRUE]

\* QueryResult(columns, data, source, execution_time_ms, from_cache=False);
\* `data` names the (query, params) whose execution produced the rows.
QueryResult(src, q, p) == [source |-> src, from_cache |-> FALSE, data |-> <<q, p>>]

\* ---------------------------------------------------------- executors
\* _execute_warehouse, lines 351-356: QueryResult(..., source=DataSource.WAREHOUSE)
execute_warehouse_result_lakebase(query, params) == QueryResult(LAKEBASE, query, params)
execute_warehouse_result(query, params) == QueryResult(WAREHOUSE, query, params)

\* _execute_lakebase, lines 308-313: QueryResult(..., source=DataSource.LAKEBASE)
execute_lakebase_result_warehouse(query, params) == QueryResult(WAREHOUSE, query, params)
execute_lakebase_result(query, params) == QueryResult(LAKEBASE, query, params)

\* ------------------------------------------------------------ cache key
\* str(params or "")
ParamsStr(params) == IF params = None THEN "" ELSE params

\* _get_cache_key: md5(query + str(params or "")); md5 is taken as injective.
get_cache_key(query, params) == query \o ParamsStr(params)

Keys == {get_cache_key(i[1], i[2]) : i \in Inputs}

IdleFrame == [query |-> None, params |-> None, use_cache |-> FALSE,
              prefer_lakebase |-> FALSE, cache_key |-> None,
              gate |-> "none", lookup |-> "none", lb_calls |-> 0, wh_calls |-> 0,
              lb_error |-> "none", wh_outcome |-> "none", failures_before |-> 0]

NoRet == [kind |-> "none", result |-> NoResult, error |-> "none"]

\* No check_table_access / get_performance_comparison in progress.
NoScan == [state |-> "off", results |-> <<>>, before |-> <<>>]
NoPerf == [state |-> "off", warehouse |-> None, lakebase |-> None, gate |-> "none"]

InitState ==
    /\ now = 0
    /\ lakebase_flag \in BOOLEAN
    /\ lakebase_pool = IF lakebase_flag THEN "open" ELSE "none"
    /\ checked_out = 0
    /\ cache = [k \in Keys |-> NoEntry]
    /\ lakebase_failures = 0
    /\ circuit_open = FALSE
    /\ circuit_open_time = 0
    /\ pc = [p \in Procs |-> "idle"]
    /\ frame = [p \in Procs |-> IdleFrame]
    /\ ret = [p \in Procs |-> NoRet]
    /\ streak = 0
    /\ clean = TRUE
    /\ prev = NoPrev
    /\ scan = NoScan
    /\ perf = NoPerf
    /\ healed = FALSE
    /\ alias = [p \in Procs |-> FALSE]
    /\ observed = "none"
    /\ close_error = FALSE

NoTranslation ==
    /\ text = <<>>
    /\ config = DefaultConfig
    /\ translations = <<>>

Init == InitState /\ tracking = FALSE /\ NoTranslation

InitPairs == InitState /\ tracking = TRUE /\ NoTranslation


AllIdle == \A p \in DOMAIN pc : pc[p] = "idle"

\* History: the breaker as the call finds it (closed, or open for less than,
\* exactly, or more than the reset timeout).
Gate ==
    IF ~circuit_open THEN "closed"
    ELSE IF now - circuit_open_time < circuit_reset_timeout THEN "fresh"
    ELSE IF now - circuit_open_time = circuit_reset_timeout THEN "limit"
    ELSE "expired"

\* ------------------------------------------------------------ the clock
Tick ==
    /\ now + TimeStep <= MaxTime
    /\ \A p \in DOMAIN pc : pc[p] \in {"idle", "getconn", "executing", "warehouse"}
    /\ now' = now + TimeStep
    /\ prev' = IF prev # NoPrev /\ now' - prev.t >= cache_ttl THEN NoPrev ELSE prev
    /\ UNCHANGED <<lakebase_flag, lakebase_pool, checked_out, cache, breaker,
                   pc, frame, ret, streak, clean, tracking, xlate, ops, alias,
                   observed, close_error>>

\* ------------------------------------------------------- circuit breaker
\* lakebase_available, line 184: time.time() - self._circuit_open_time > timeout
ResetDue_lt == now - circuit_open_time < circuit_reset_timeout
ResetDue_ge == now - circuit_open_time >= circuit_reset_timeout
ResetDue == now - circuit_open_time > circuit_reset_timeout

\* The value the property lakebase_available returns.
lakebase_available_value_pool == lakebase_flag
lakebase_available_value_noflag == IF circuit_open THEN ResetDue ELSE TRUE
lakebase_available_value ==
    IF ~lakebase_flag THEN FALSE
    ELSE IF circuit_open THEN ResetDue
    ELSE TRUE

\* current_source: LAKEBASE if self.lakebase_available else WAREHOUSE
current_source_value == IF lakebase_available_value THEN LAKEBASE ELSE WAREHOUSE

\* The reset the property performs as a side effect (lines 185-186).
Resets_always == lakebase_flag /\ circuit_open
Resets_never == FALSE
Resets == lakebase_flag /\ circuit_open /\ ResetDue

ResetFailures_keep == lakebase_failures
ResetFailures == 0

\* Reading the property: returns lakebase_available_value and updates the breaker.
lakebase_available_noreset == UNCHANGED <<breaker, streak, clean>>
lakebase_available ==
    /\ circuit_open' = IF Resets THEN FALSE ELSE circuit_open
    /\ lakebase_failures' = IF Resets THEN ResetFailures ELSE lakebase_failures
    /\ UNCHANGED circuit_open_time
    /\ streak' = IF Resets THEN 0 ELSE streak
    /\ clean' = IF Resets THEN TRUE ELSE clean

\* _record_lakebase_failure, line 203
ThresholdReached_gt(n) == n > failure_threshold
ThresholdReached(n) == n >= failure_threshold

record_lakebase_failure_double ==
    /\ lakebase_failures' = lakebase_failures + 1 + 1
    /\ IF ThresholdReached(lakebase_failures')
       THEN circuit_open' = TRUE /\ circuit_open_time' = now
       ELSE UNCHANGED <<circuit_open, circuit_open_time>>
record_lakebase_failure ==
    /\ lakebase_failures' = lakebase_failures + 1
    /\ IF ThresholdReached(lakebase_failures')
       THEN circuit_open' = TRUE /\ circuit_open_time' = now
       ELSE UNCHANGED <<circuit_open, circuit_open_time>>

\* ----------------------------------------------------------------- cache
\* _get_cached, line 232: time.time() - timestamp < self.cache_ttl
CacheValid_le(timestamp) == now - timestamp <= cache_ttl
CacheValid(timestamp) == now - timestamp < cache_ttl

\* _get_cached: the value returned (NoResult stands for None) ...
get_cached_value(cache_key) ==
    IF cache[cache_key] # NoEntry /\ CacheValid(cache[cache_key].timestamp)
    THEN [cache[cache_key].result EXCEPT !.from_cache = TRUE]
    ELSE NoResult

\* ... and the cache it leaves: the stored object gets from_cache = True on a
\* hit, an expired entry is deleted.
get_cached_cache(cache_key) ==
    IF cache[cache_key] = NoEntry THEN cache
    ELSE IF CacheValid(cache[cache_key].timestamp)
         THEN [cache EXCEPT ![cache_key].result.from_cache = TRUE]
         ELSE [cache EXCEPT ![cache_key] = NoEntry]

\* _set_cache: self._cache[cache_key] = (result, time.time())
set_cache_skip(cache_key, result) == cache
set_cache_purge(cache_key, result) ==
    [k \in Keys |->
        IF k = cache_key THEN [result |-> result, timestamp |-> now]
        ELSE IF cache[k] # NoEntry /\ ~CacheValid(cache[k].timestamp) THEN NoEntry
        ELSE cache[k]]
set_cache(cache_key, result) ==
    [cache EXCEPT ![cache_key] = [result |-> result, timestamp |-> now]]

\* Object identity.  _set_cache stores the very object execute_query goes on
\* to return, and _get_cached returns the stored object: alias[q] says that
\* the result thread q holds is the object now stored under its cache key.
\* A store under the same key by another thread replaces the object ...
alias_store(p) ==
    [q \in DOMAIN alias |->
        IF q = p THEN TRUE
        ELSE IF frame[q].cache_key = frame[p].cache_key THEN FALSE ELSE alias[q]]

\* ... and deleting the entry drops it from the cache.
alias_drop(cache_key) ==
    [q \in DOMAIN alias |-> alias[q] /\ frame[q].cache_key # cache_key]

\* Line 233, result.from_cache = True: every holder of the stored object
\* sees the flag.
mark_from_cache(cache_key) ==
    [q \in DOMAIN ret |->
        IF alias[q] /\ frame[q].cache_key = cache_key
        THEN [ret[q] EXCEPT !.result.from_cache = TRUE] ELSE ret[q]]

\* clear_cache().  History: the last operation was a clear_cache(), and
\* whether it found entries.
ClearCache ==
    /\ cache' = [k \in Keys |-> NoEntry]
    /\ alias' = [q \in DOMAIN alias |-> FALSE]
    /\ prev' = NoPrev
    /\ observed' = IF \E k \in Keys : cache[k] # NoEntry
                   THEN "cleared" ELSE "clear_noop"
    /\ UNCHANGED <<now, lakebase_flag, lakebase_pool, checked_out, breaker,
                   pc, frame, ret, streak, clean, tracking, xlate, ops, close_error>>

\* ---------------------------------------------------------- execute_query
\* A thread calls execute_query(query, params, use_cache, prefer_lakebase).
Call_lookup_always(p, query, params, use_cache, prefer_lakebase) ==
    /\ pc[p] = "idle"
    /\ frame' = [frame EXCEPT ![p] =
            [IdleFrame EXCEPT !.query = query, !.params = params,
                              !.use_cache = use_cache,
                              !.prefer_lakebase = prefer_lakebase,
                              !.gate = Gate]]
    /\ pc' = [pc EXCEPT ![p] = "lookup"]
    /\ observed' = "none"
    /\ close_error' = FALSE
    /\ UNCHANGED <<now, lakebase_flag, lakebase_pool, checked_out, cache, breaker,
                   ret, hist0, alias>>
Call(p, query, params, use_cache, prefer_lakebase) ==
    /\ pc[p] = "idle"
    /\ frame' = [frame EXCEPT ![p] =
            [IdleFrame EXCEPT !.query = query, !.params = params,
                              !.use_cache = use_cache,
                              !.prefer_lakebase = prefer_lakebase,
                              !.gate = Gate]]
    /\ pc' = [pc EXCEPT ![p] = IF use_cache THEN "lookup" ELSE "select"]
    /\ observed' = "none"
    /\ close_error' = FALSE
    /\ UNCHANGED <<now, lakebase_flag, lakebase_pool, checked_out, cache, breaker,
                   ret, hist0, alias>>

\* Lines 267-271: cache_key = _get_cache_key(...); cached = _get_cached(cache_key);
\* if cached: return cached.
Lookup(p) ==
    /\ pc[p] = "lookup"
    /\ LET cache_key == get_cache_key(frame[p].query, frame[p].params)
           cached == get_cached_value(cache_key)
       IN  /\ cache' = get_cached_cache(cache_key)
           /\ IF cached # NoResult
              THEN /\ ret' = [mark_from_cache(cache_key) EXCEPT ![p] =
                                [kind |-> "return", result |-> cached, error |-> "none"]]
                   /\ alias' = [alias EXCEPT ![p] = TRUE]
                   /\ pc' = [pc EXCEPT ![p] = "done"]
                   /\ frame' = [frame EXCEPT ![p].cache_key = cache_key,
                                             ![p].lookup = "hit"]
              ELSE /\ pc' = [pc EXCEPT ![p] = "select"]
                   /\ frame' = [frame EXCEPT ![p].cache_key = cache_key,
                            ![p].lookup = IF cache[cache_key] = NoEntry
                                          THEN "absent" ELSE "expired"]
                   /\ alias' = alias_drop(cache_key)
                   /\ UNCHANGED ret
    /\ UNCHANGED <<now, lakebase_flag, lakebase_pool, checked_out, breaker, hist0,
                   observed, close_error>>

\* Line 274: if prefer_lakebase and self.lakebase_available (the property is
\* evaluated only when prefer_lakebase is true).
Select_check_first(p) ==
    /\ pc[p] = "select"
    /\ lakebase_available
    /\ pc' = [pc EXCEPT ![p] = IF frame[p].prefer_lakebase /\ lakebase_available_value
                               THEN "getconn" ELSE "warehouse"]
    /\ UNCHANGED <<now, lakebase_flag, lakebase_pool, checked_out, cache, frame, ret,
                   prev, tracking, xlate, ops, alias, observed, close_error>>
Select(p) ==
    /\ pc[p] = "select"
    /\ IF frame[p].prefer_lakebase
       THEN /\ lakebase_available
            /\ pc' = [pc EXCEPT ![p] = IF lakebase_available_value
                                       THEN "getconn" ELSE "warehouse"]
       ELSE /\ pc' = [pc EXCEPT ![p] = "warehouse"]
            /\ UNCHANGED <<breaker, streak, clean>>
    /\ UNCHANGED <<now, lakebase_flag, lakebase_pool, checked_out, cache, frame, ret,
                   prev, tracking, xlate, ops, alias, observed,
                   close_error>>

\* A primary attempt of execute_query failed: the exception leaves
\* _execute_lakebase and reaches the try of line 275.
LakebaseRaises(p, kind) ==
    /\ frame' = [frame EXCEPT ![p].lb_calls = @ + 1, ![p].lb_error = kind,
                              ![p].failures_before = lakebase_failures]
    /\ pc' = [pc EXCEPT ![p] = "except"]
    /\ streak' = streak + 1
    /\ UNCHANGED <<clean, prev, tracking, xlate, ops, alias, observed,
                   close_error>>

\* _execute_lakebase, lines 292-296: the pool hands out a connection, or
\* getconn() raises (pool closed, server unreachable, pool exhausted).
GetConn(p) ==
    /\ pc[p] = "getconn"
    /\ \/ /\ lakebase_pool = "open"
          /\ checked_out' = checked_out + 1
          /\ pc' = [pc EXCEPT ![p] = "executing"]
          /\ UNCHANGED <<frame, hist>>
       \/ /\ LakebaseRaises(p, "pool")
          /\ UNCHANGED checked_out
    /\ UNCHANGED <<now, lakebase_flag, lakebase_pool, cache, breaker, ret>>

\* _execute_lakebase, lines 314-316: finally: self._lakebase_pool.putconn(conn)
putconn_skip(n) == n
putconn(n) == n - 1

\* _execute_lakebase, lines 298-316: translate, execute, build the result;
\* finally: putconn.  Back in execute_query (277-279): cache and return.
Executing(p) ==
    /\ pc[p] = "executing"
    /\ checked_out' = putconn(checked_out)
    /\ \/ LET result == execute_lakebase_result(frame[p].query, frame[p].params)
          IN  /\ cache' = IF frame[p].use_cache
                          THEN set_cache(frame[p].cache_key, result) ELSE cache
              /\ alias' = IF frame[p].use_cache THEN alias_store(p) ELSE alias
              /\ ret' = [ret EXCEPT ![p] = [kind |-> "return", result |-> result,
                                            error |-> "none"]]
              /\ frame' = [frame EXCEPT ![p].lb_calls = @ + 1]
              /\ pc' = [pc EXCEPT ![p] = "done"]
              /\ streak' = 0
              /\ clean' = (lakebase_failures = 0)
              /\ UNCHANGED <<prev, tracking, xlate, ops, observed, close_error>>
       \/ /\ LakebaseRaises(p, "stmt")
          /\ UNCHANGED <<cache, ret>>
    /\ UNCHANGED <<now, lakebase_flag, lakebase_pool, breaker>>

\* Lines 280-282: except Exception: print(...); self._record_lakebase_failure()
ExceptLakebase_reraise(p) ==
    /\ pc[p] = "except"
    /\ record_lakebase_failure
    /\ ret' = [ret EXCEPT ![p] = [kind |-> "raise", result |-> NoResult,
                                  error |-> LAKEBASE]]
    /\ pc' = [pc EXCEPT ![p] = "done"]
    /\ UNCHANGED <<now, lakebase_flag, lakebase_pool, checked_out, cache, frame, hist>>
ExceptLakebase(p) ==
    /\ pc[p] = "except"
    /\ record_lakebase_failure
    /\ pc' = [pc EXCEPT ![p] = "warehouse"]
    /\ UNCHANGED <<now, lakebase_flag, lakebase_pool, checked_out, cache, frame, ret,
                   hist>>

\* The error execute_query raises when _execute_warehouse fails: the call of
\* line 285 is outside any try, so it is the warehouse's own error.
WarehouseError_first(p) == IF frame[p].lb_error # "none" THEN LAKEBASE ELSE WAREHOUSE
WarehouseError(p) == WAREHOUSE

\* Lines 285-288 with _execute_warehouse: the statement succeeds and the result
\* is cached and returned, or _execute_warehouse raises and the error
\* propagates to the caller.
Warehouse_store_on_error(p) ==
    /\ pc[p] = "warehouse"
    /\ pc' = [pc EXCEPT ![p] = "done"]
    /\ LET result == execute_warehouse_result(frame[p].query, frame[p].params)
       IN  /\ cache' = IF frame[p].use_cache
                       THEN set_cache(frame[p].cache_key, result) ELSE cache
           /\ alias' = IF frame[p].use_cache THEN alias_store(p) ELSE alias
           /\ \/ /\ ret' = [ret EXCEPT ![p] = [kind |-> "return", result |-> result,
                                                error |-> "none"]]
                 /\ frame' = [frame EXCEPT ![p].wh_calls = @ + 1,
                                           ![p].wh_outcome = "ok"]
              \/ /\ ret' = [ret EXCEPT ![p] = [kind |-> "raise", result |-> NoResult,
                                                error |-> WarehouseError(p)]]
                 /\ frame' = [frame EXCEPT ![p].wh_calls = @ + 1,
                                           ![p].wh_outcome = "error"]
    /\ UNCHANGED <<now, lakebase_flag, lakebase_pool, checked_out, breaker, hist0,
                   observed, close_error>>
Warehouse(p) ==
    /\ pc[p] = "warehouse"
    /\ pc' = [pc EXCEPT ![p] = "done"]
    /\ \/ LET result == execute_warehouse_result(frame[p].query, frame[p].params)
          IN  /\ cache' = IF frame[p].use_cache
                          THEN set_cache(frame[p].cache_key, result) ELSE cache
              /\ ret' = [ret EXCEPT ![p] = [kind |-> "return", result |-> result,
                                            error |-> "none"]]
              /\ alias' = IF frame[p].use_cache THEN alias_store(p) ELSE alias
              /\ frame' = [frame EXCEPT ![p].wh_calls = @ + 1,
                                        ![p].wh_outcome = "ok"]
       \/ /\ ret' = [ret EXCEPT ![p] = [kind |-> "raise", result |-> NoResult,
                                        error |-> WarehouseError(p)]]
          /\ frame' = [frame EXCEPT ![p].wh_calls = @ + 1,
                                    ![p].wh_outcome = "error"]
          /\ UNCHANGED <<cache, alias>>
    /\ UNCHANGED <<now, lakebase_flag, lakebase_pool, checked_out, breaker, hist0,
                   observed, close_error>>

\* The caller takes the outcome.  History: a successful call that used the
\* cache may be remembered as `prev`, the first of a pair of calls.
Return(p) ==
    /\ pc[p] = "done"
    /\ pc' = [pc EXCEPT ![p] = "idle"]
    /\ frame' = [frame EXCEPT ![p] = IdleFrame]
    /\ ret' = [ret EXCEPT ![p] = NoRet]
    /\ \/ UNCHANGED prev
       \/ /\ tracking
          /\ ret[p].kind = "return"
          /\ frame[p].use_cache
          /\ prev' = [data |-> <<frame[p].query, frame[p].params>>,
                      t |-> now,
                      calls |-> frame[p].lb_calls + frame[p].wh_calls]
    /\ alias' = [alias EXCEPT ![p] = FALSE]
    /\ UNCHANGED <<now, lakebase_flag, lakebase_pool, checked_out, cache, breaker,
                   streak, clean, tracking, xlate, ops, observed, close_error>>

\* ------------------------------------------------------ other operations
\* Reading the property lakebase_available / current_source (health endpoint).
\* History: whether the read reset the breaker.
ReadAvailable ==
    /\ lakebase_available
    /\ observed' = IF Resets THEN "reset" ELSE "kept"
    /\ UNCHANGED <<now, lakebase_flag, lakebase_pool, checked_out, cache,
                   pc, frame, ret, prev, tracking, xlate, ops, alias, close_error>>

\* psycopg2's AbstractConnectionPool._closeall: a pool that is already closed
\* raises PoolError("connection pool is closed").
closeall_raises == lakebase_pool = "closed"

\* close(): if self._lakebase_pool: self._lakebase_pool.closeall()
\* The pool object, once created, stays in self._lakebase_pool (and stays
\* true) after closeall(); close_error records whether this call raised.
Close ==
    /\ lakebase_pool' = IF lakebase_pool = "none" THEN "none" ELSE "closed"
    /\ close_error' = (lakebase_pool # "none" /\ closeall_raises)
    /\ UNCHANGED <<now, lakebase_flag, checked_out, cache, breaker, pc, frame, ret,
                   hist0, alias, observed>>

\* ------------------------------------------------------- specification
\* Calls do not overlap: an operation starts when no call is in progress.
Next ==
    \/ Tick
    \/ \E p \in Procs, i \in Inputs, use_cache \in BOOLEAN, prefer_lakebase \in BOOLEAN :
          AllIdle /\ Call(p, i[1], i[2], use_cache, prefer_lakebase)
    \/ \E p \in Procs : Lookup(p)
    \/ \E p \in Procs : Select(p)
    \/ \E p \in Procs : GetConn(p)
    \/ \E p \in Procs : Executing(p)
    \/ \E p \in Procs : ExceptLakebase(p)
    \/ \E p \in Procs : Warehouse(p)
    \/ \E p \in Procs : Return(p)
    \/ AllIdle /\ ClearCache
    \/ AllIdle /\ ReadAvailable
    \/ AllIdle /\ Close

Spec == Init /\ [][Next]_vars

\* The same program, with pairs of calls recorded.
SpecPairs == InitPairs /\ [][Next]_vars

\* ------------------------------------------------- check_table_access
\* tables_to_check, lines 360-365.  The fourth name is built from the
\* configured catalog and schema.
tables_to_check ==
    << [table |-> "system.lakeflow.job_run_timeline", description |-> "Job run history"],
       [table |-> "system.lakeflow.jobs", description |-> "Job definitions"],
       [table |-> "system.billing.usage", description |-> "Billing data"],
       [table |-> "{catalog}.{schema}.serverless_tag_correlation",
        description |-> "Tag correlation"] >>

\* f"SELECT 1 FROM {table} LIMIT 1"
ProbeQuery(table) == <<"SELECT 1 FROM ", table, " LIMIT 1">>

\* No operation of the data layer is in progress.
OpsIdle == AllIdle /\ scan.state = "off" /\ perf.state = "off"

\* check_table_access is called: results = [].  History: the cache as the
\* scan finds it.
CheckTableAccess ==
    /\ OpsIdle
    /\ scan' = [state |-> "running", results |-> <<>>, before |-> cache]
    /\ UNCHANGED <<now, lakebase_flag, lakebase_pool, checked_out, cache, breaker,
                   pc, frame, ret, streak, clean, prev, tracking, xlate, perf, healed,
                   alias, observed, close_error>>

\* Line 370: self.execute_query(f"SELECT 1 FROM {table} LIMIT 1", use_cache=False)
\* for the next table of the list.
Probe(p) ==
    /\ scan.state = "running"
    /\ Len(scan.results) < Len(tables_to_check)
    /\ Call(p, ProbeQuery(tables_to_check[Len(scan.results) + 1].table), None,
            FALSE, TRUE)

\* Lines 371-382: the call returned and the table is reported accessible, or
\* it raised and the except clause reports the error; the loop goes on.
\* History: what the backends did in the probe, and the breaker as the
\* probe found it.
ProbeHistory(p) ==
    [wh_outcome |-> frame[p].wh_outcome, lb_calls |-> frame[p].lb_calls,
     lb_error |-> frame[p].lb_error, gate |-> frame[p].gate,
     failures_before |-> frame[p].failures_before]

ProbeEntry(p, entry) ==
    IF ret[p].kind = "return"
    THEN [table |-> entry.table, description |-> entry.description,
          accessible |-> TRUE, error |-> "none", history |-> ProbeHistory(p)]
    ELSE [table |-> entry.table, description |-> entry.description,
          accessible |-> FALSE, error |-> ret[p].error,
          history |-> ProbeHistory(p)]

ProbeDone_abort(p) ==
    /\ scan.state = "running"
    /\ pc[p] = "done"
    /\ scan' = IF ret[p].kind = "return"
               THEN [scan EXCEPT !.results =
                        Append(@, ProbeEntry(p, tables_to_check[Len(@) + 1]))]
               ELSE [scan EXCEPT !.state = "raised"]
    /\ pc' = [pc EXCEPT ![p] = "idle"]
    /\ frame' = [frame EXCEPT ![p] = IdleFrame]
    /\ ret' = [ret EXCEPT ![p] = NoRet]
    /\ alias' = [alias EXCEPT ![p] = FALSE]
    /\ UNCHANGED <<now, lakebase_flag, lakebase_pool, checked_out, cache, breaker,
                   streak, clean, prev, tracking, xlate, perf, healed, observed,
                   close_error>>
ProbeDone(p) ==
    /\ scan.state = "running"
    /\ pc[p] = "done"
    /\ scan' = [scan EXCEPT !.results =
                    Append(@, ProbeEntry(p, tables_to_check[Len(@) + 1]))]
    /\ pc' = [pc EXCEPT ![p] = "idle"]
    /\ frame' = [frame EXCEPT ![p] = IdleFrame]
    /\ ret' = [ret EXCEPT ![p] = NoRet]
    /\ alias' = [alias EXCEPT ![p] = FALSE]
    /\ UNCHANGED <<now, lakebase_flag, lakebase_pool, checked_out, cache, breaker,
                   streak, clean, prev, tracking, xlate, perf, healed, observed,
                   close_error>>

\* Line 384: return results, once the loop has gone through the list ...
CheckTableAccessReturn ==
    /\ scan.state = "running"
    /\ AllIdle
    /\ Len(scan.results) = Len(tables_to_check)
    /\ scan' = [scan EXCEPT !.state = "finished"]
    /\ UNCHANGED <<now, lakebase_flag, lakebase_pool, checked_out, cache, breaker,
                   pc, frame, ret, streak, clean, prev, tracking, xlate, perf, healed,
                   alias, observed, close_error>>

\* ... and the caller takes them.
CheckTableAccessTaken ==
    /\ scan.state = "finished"
    /\ scan' = NoScan
    /\ UNCHANGED <<now, lakebase_flag, lakebase_pool, checked_out, cache, breaker,
                   pc, frame, ret, streak, clean, prev, tracking, xlate, perf, healed,
                   alias, observed, close_error>>

\* ------------------------------------------- get_performance_comparison
\* The call: results = {"lakebase": None, "warehouse": None, ...}
GetPerformanceComparison ==
    /\ OpsIdle
    /\ perf' = [NoPerf EXCEPT !.state = "warehouse"]
    /\ UNCHANGED <<now, lakebase_flag, lakebase_pool, checked_out, cache, breaker,
                   pc, frame, ret, streak, clean, prev, tracking, xlate, scan, healed,
                   alias, observed, close_error>>

\* Lines 393-400: the warehouse is tested first, inside its own try.
PerfWarehouse ==
    /\ perf.state = "warehouse"
    /\ \E status \in {"success", "error"} :
          perf' = [perf EXCEPT !.state = "check", !.warehouse = status]
    /\ UNCHANGED <<now, lakebase_flag, lakebase_pool, checked_out, cache, breaker,
                   pc, frame, ret, streak, clean, prev, tracking, xlate, scan, healed,
                   alias, observed, close_error>>

\* Line 403: if self.lakebase_available.  History: the breaker as the check
\* finds it.
PerfCheck ==
    /\ perf.state = "check"
    /\ lakebase_available
    /\ perf' = [perf EXCEPT !.gate = Gate,
                            !.state = IF lakebase_available_value
                                      THEN "getconn" ELSE "finished"]
    /\ UNCHANGED <<now, lakebase_flag, lakebase_pool, checked_out, cache,
                   pc, frame, ret, prev, tracking, xlate, scan, healed,
                   alias, observed, close_error>>

\* Lines 404-412 with _execute_lakebase: getconn() hands out a connection or
\* raises; the except clause of line 411 reports the error and records no
\* failure in the breaker.
PerfGetConn ==
    /\ perf.state = "getconn"
    /\ \/ /\ lakebase_pool = "open"
          /\ checked_out' = checked_out + 1
          /\ perf' = [perf EXCEPT !.state = "executing"]
       \/ /\ perf' = [perf EXCEPT !.state = "finished", !.lakebase = "error"]
          /\ UNCHANGED checked_out
    /\ UNCHANGED <<now, lakebase_flag, lakebase_pool, cache, breaker,
                   pc, frame, ret, streak, clean, prev, tracking, xlate, scan, healed,
                   alias, observed, close_error>>

PerfExecuting_record ==
    /\ perf.state = "executing"
    /\ checked_out' = putconn(checked_out)
    /\ \/ /\ perf' = [perf EXCEPT !.state = "finished", !.lakebase = "success"]
          /\ UNCHANGED breaker
       \/ /\ perf' = [perf EXCEPT !.state = "finished", !.lakebase = "error"]
          /\ record_lakebase_failure
    /\ UNCHANGED <<now, lakebase_flag, lakebase_pool, cache,
                   pc, frame, ret, streak, clean, prev, tracking, xlate, scan, healed,
                   alias, observed, close_error>>
PerfExecuting ==
    /\ perf.state = "executing"
    /\ checked_out' = putconn(checked_out)
    /\ \E status \in {"success", "error"} :
          perf' = [perf EXCEPT !.state = "finished", !.lakebase = status]
    /\ UNCHANGED <<now, lakebase_flag, lakebase_pool, cache, breaker,
                   pc, frame, ret, streak, clean, prev, tracking, xlate, scan, healed,
                   alias, observed, close_error>>

\* Line 422: return results; the caller takes them.
PerfReturn ==
    /\ perf.state = "finished"
    /\ perf' = NoPerf
    /\ UNCHANGED <<now, lakebase_flag, lakebase_pool, checked_out, cache, breaker,
                   pc, frame, ret, streak, clean, prev, tracking, xlate, scan, healed,
                   alias, observed, close_error>>

\* --------------------------------- specification of all the operations
\* The queries the callers of execute_query send, beside the table probes.
OpsInputs == {<<Q1, None>>}

\* Every public operation of the data layer, called one at a time.
NextOps ==
    \/ Tick
    \/ \E p \in Procs, i \in OpsInputs, use_cache \in BOOLEAN, prefer_lakebase \in BOOLEAN :
          OpsIdle /\ Call(p, i[1], i[2], use_cache, prefer_lakebase)
    \/ \E p \in Procs : Lookup(p)
    \/ \E p \in Procs : Select(p)
    \/ \E p \in Procs : GetConn(p)
    \/ \E p \in Procs : Executing(p)
    \/ \E p \in Procs : ExceptLakebase(p)
    \/ \E p \in Procs : Warehouse(p)
    \/ \E p \in Procs : scan.state = "off" /\ Return(p)
    \/ OpsIdle /\ ClearCache
    \/ OpsIdle /\ ReadAvailable
    \/ OpsIdle /\ Close
    \/ CheckTableAccess
    \/ \E p \in Procs : Probe(p)
    \/ \E p \in Procs : ProbeDone(p)
    \/ CheckTableAccessReturn
    \/ CheckTableAccessTaken
    \/ GetPerformanceComparison
    \/ PerfWarehouse
    \/ PerfCheck
    \/ PerfGetConn
    \/ PerfExecuting
    \/ PerfReturn

SpecOps == Init /\ [][NextOps]_vars

\* ------------------------------------------------- concurrent callers
\* Two threads of the server call execute_query and clear_cache on the one
\* data layer, with no lock: their steps interleave.
Threads == {"t1", "t2"}

\* The calls that race: one query, looked up in the cache by both threads.
ConcInputs == {<<Q1, None>>}

InitConc ==
    /\ now = 0
    /\ lakebase_flag \in BOOLEAN
    /\ lakebase_pool = IF lakebase_flag THEN "open" ELSE "none"
    /\ checked_out = 0
    /\ cache = [k \in Keys |-> NoEntry]
    /\ lakebase_failures = 0
    /\ circuit_open = FALSE
    /\ circuit_open_time = 0
    /\ pc = [p \in Threads |-> "idle"]
    /\ frame = [p \in Threads |-> IdleFrame]
    /\ ret = [p \in Threads |-> NoRet]
    /\ alias = [p \in Threads |-> FALSE]
    /\ streak = 0
    /\ clean = TRUE
    /\ prev = NoPrev
    /\ scan = NoScan
    /\ perf = NoPerf
    /\ healed = FALSE
    /\ observed = "none"
    /\ close_error = FALSE
    /\ tracking = FALSE
    /\ NoTranslation

\* A lookup of a key that is not in the dict: self._cache[cache_key] and
\* del self._cache[cache_key] raise KeyError, which nothing in _get_cached or
\* execute_query catches.
KeyError == "KeyError"

RaiseKeyError(p) ==
    /\ ret' = [ret EXCEPT ![p] = [kind |-> "raise", result |-> NoResult,
                                  error |-> KeyError]]
    /\ pc' = [pc EXCEPT ![p] = "done"]
    /\ frame' = [frame EXCEPT ![p].lookup = "keyerror"]

\* _get_cached step by step.  Line 230: if cache_key in self._cache.
LookupIn(p) ==
    /\ pc[p] = "lookup"
    /\ LET cache_key == get_cache_key(frame[p].query, frame[p].params)
       IN  IF cache[cache_key] # NoEntry
           THEN /\ pc' = [pc EXCEPT ![p] = "lookup_read"]
                /\ frame' = [frame EXCEPT ![p].cache_key = cache_key]
           ELSE /\ pc' = [pc EXCEPT ![p] = "select"]
                /\ frame' = [frame EXCEPT ![p].cache_key = cache_key,
                                          ![p].lookup = "absent"]
    /\ UNCHANGED <<now, lakebase_flag, lakebase_pool, checked_out, cache, breaker,
                   ret, hist>>

\* Lines 231-234: result, timestamp = self._cache[cache_key]; a fresh entry
\* is marked and returned.  The subscript, the test and the marking are taken
\* as one step, so the marked object is the one in the cache.
LookupRead(p) ==
    /\ pc[p] = "lookup_read"
    /\ LET cache_key == frame[p].cache_key
       IN  IF cache[cache_key] = NoEntry
           THEN /\ RaiseKeyError(p)
                /\ UNCHANGED <<cache, alias>>
           ELSE IF CacheValid(cache[cache_key].timestamp)
           THEN /\ cache' = get_cached_cache(cache_key)
                /\ ret' = [mark_from_cache(cache_key) EXCEPT ![p] =
                             [kind |-> "return", result |-> get_cached_value(cache_key),
                              error |-> "none"]]
                /\ alias' = [alias EXCEPT ![p] = TRUE]
                /\ pc' = [pc EXCEPT ![p] = "done"]
                /\ frame' = [frame EXCEPT ![p].lookup = "hit"]
           ELSE /\ pc' = [pc EXCEPT ![p] = "lookup_del"]
                /\ UNCHANGED <<cache, ret, alias, frame>>
    /\ UNCHANGED <<now, lakebase_flag, lakebase_pool, checked_out, breaker, hist0,
                   observed, close_error>>

\* Line 236: del self._cache[cache_key]
LookupDel(p) ==
    /\ pc[p] = "lookup_del"
    /\ LET cache_key == frame[p].cache_key
       IN  IF cache[cache_key] = NoEntry
           THEN /\ RaiseKeyError(p)
                /\ UNCHANGED <<cache, alias>>
           ELSE /\ cache' = [cache EXCEPT ![cache_key] = NoEntry]
                /\ alias' = alias_drop(cache_key)
                /\ pc' = [pc EXCEPT ![p] = "select"]
                /\ frame' = [frame EXCEPT ![p].lookup = "expired"]
                /\ UNCHANGED ret
    /\ UNCHANGED <<now, lakebase_flag, lakebase_pool, checked_out, breaker, hist0,
                   observed, close_error>>

NextConc ==
    \/ Tick
    \/ \E p \in Threads, i \in ConcInputs, prefer_lakebase \in BOOLEAN :
          Call(p, i[1], i[2], TRUE, prefer_lakebase)
    \/ \E p \in Threads : LookupIn(p)
    \/ \E p \in Threads : LookupRead(p)
    \/ \E p \in Threads : LookupDel(p)
    \/ \E p \in Threads : Select(p)
    \/ \E p \in Threads : GetConn(p)
    \/ \E p \in Threads : Executing(p)
    \/ \E p \in Threads : ExceptLakebase(p)
    \/ \E p \in Threads : Warehouse(p)
    \/ \E p \in Threads : Return(p)
    \/ ClearCache

SpecConc == InitConc /\ [][NextConc]_vars

\* ------------------------------------------------------------ recovery
\* Time without end.  The program compares time stamps by difference only
\* (lines 184 and 232), so once the clock has reached MaxTime a further
\* quantum is modelled by moving the stamps back instead of the clock
\* forward; ages beyond AgeCap, longer than the TTL and the reset timeout,
\* are not told apart.
AgeCap == cache_ttl + circuit_reset_timeout

Older(t) == IF now - (t - TimeStep) > AgeCap THEN now - AgeCap ELSE t - TimeStep

TickShift ==
    /\ now + TimeStep > MaxTime
    /\ \A p \in DOMAIN pc : pc[p] \in {"idle", "getconn", "executing", "warehouse"}
    /\ circuit_open_time' = Older(circuit_open_time)
    /\ cache' = [k \in Keys |->
                    IF cache[k] = NoEntry THEN NoEntry
                    ELSE [cache[k] EXCEPT !.timestamp = Older(@)]]
    /\ UNCHANGED <<now, lakebase_flag, lakebase_pool, checked_out, lakebase_failures,
                   circuit_open, pc, frame, ret, hist>>

TickLive == Tick \/ TickShift

\* The primary recovers: from here on getconn() and the statement succeed.
Heal ==
    /\ ~healed
    /\ lakebase_pool = "open"
    /\ healed' = TRUE
    /\ UNCHANGED <<now, lakebase_flag, lakebase_pool, checked_out, cache, breaker,
                   pc, frame, ret, streak, clean, prev, tracking, xlate, scan, perf,
                   alias, observed, close_error>>

GetConnLive(p) == GetConn(p) /\ (healed => pc'[p] = "executing")

ExecutingLive(p) == Executing(p) /\ (healed => pc'[p] = "done")

\* A call that prefers the primary and does not use the cache.
CallPrimary == \E p \in Procs : AllIdle /\ Call(p, Q1, None, FALSE, TRUE)

CallStep(p) ==
    \/ Lookup(p)
    \/ Select(p)
    \/ GetConnLive(p)
    \/ ExecutingLive(p)
    \/ ExceptLakebase(p)
    \/ Warehouse(p)
    \/ Return(p)

NextLive ==
    \/ TickLive
    \/ Heal
    \/ CallPrimary
    \/ \E p \in Procs, use_cache \in BOOLEAN, prefer_lakebase \in BOOLEAN :
          AllIdle /\ Call(p, Q1, None, use_cache, prefer_lakebase)
    \/ \E p \in Procs : CallStep(p)
    \/ AllIdle /\ ClearCache
    \/ AllIdle /\ ReadAvailable

\* Time keeps advancing, a call in progress goes on, and calls that prefer
\* the primary and bypass the cache keep arriving.
Fairness ==
    /\ SF_vars(TickLive)
    /\ \A p \in Procs : WF_vars(CallStep(p))
    /\ SF_vars(CallPrimary)

SpecLive == Init /\ [][NextLive]_vars /\ Fairness

\* -------------------------------------------- translator specification
MaxFragments == 3

Configs == {DefaultConfig, <<"monitor", "cost_management">>}

\* Pieces of query text: the logical identifiers, the configured prefixes,
\* already translated identifiers, and surrounding text.
Fragments ==
    {TABLE_MAPPINGS[i][1] : i \in 1..Len(TABLE_MAPPINGS)}
    \cup {ConfigPrefix(c[1], c[2]) : c \in Configs}
    \cup {TABLE_MAPPINGS[1][2], LakebasePrefix,
          <<"system", ".", "lakeflow", ".">>, <<" ">>, <<"t">>}

RECURSIVE Texts(_)
Texts(n) ==
    IF n = 0 THEN {<<>>}
    ELSE Texts(n - 1) \cup {t \o f : t \in Texts(n - 1), f \in Fragments}

InitTranslate ==
    /\ InitState
    /\ ~lakebase_flag
    /\ tracking = FALSE
    /\ text \in Texts(MaxFragments)
    /\ config \in Configs
    /\ translations = <<>>

\* The translator is applied to the text, then to its own output.
Translate ==
    /\ Len(translations) < 2
    /\ translations' = Append(translations,
            translate_query_for_lakebase(
                IF translations = <<>> THEN text ELSE translations[Len(translations)],
                config[1], config[2]))
    /\ UNCHANGED <<now, lakebase_flag, lakebase_pool, checked_out, cache, breaker,
                   pc, frame, ret, streak, clean, prev, tracking, text, config,
                   ops, alias, observed, close_error>>

SpecTranslate == InitTranslate /\ [][Translate]_vars

\* ================================================================ claims
Input(p) == <<frame[p].query, frame[p].params>>
Returned(p) == pc[p] = "done" /\ ret[p].kind = "return"
Raised(p) == pc[p] = "done" /\ ret[p].kind = "raise"

\* C1: a call whose primary attempt raised and whose fallback execution
\* succeeded returns the fallback's result, tagged source = WAREHOUSE, and
\* raises nothing.
C1_FailoverReturnsFallback ==
    \A p \in Procs :
        (pc[p] = "done" /\ frame[p].lb_error # "none" /\ frame[p].wh_outcome = "ok")
        => /\ ret[p].kind = "return"
           /\ ret[p].error = "none"
           /\ ret[p].result = QueryResult(WAREHOUSE, frame[p].query, frame[p].params)

C1_Witness ==
    \E p \in Procs :
        /\ Returned(p)
        /\ frame[p].lb_error = "stmt"
        /\ frame[p].wh_outcome = "ok"
        /\ ret[p].result.source = WAREHOUSE

\* C2: when the primary attempt and the fallback execution both fail, the call
\* raises the fallback's error, and each executor was invoked exactly once.
C2_TotalFailureRaisesFallbackError ==
    \A p \in Procs :
        (pc[p] = "done" /\ frame[p].lb_error # "none" /\ frame[p].wh_outcome = "error")
        => /\ ret[p].kind = "raise"
           /\ ret[p].error = WAREHOUSE
           /\ frame[p].lb_calls = 1
           /\ frame[p].wh_calls = 1

C2_Witness ==
    \E p \in Procs :
        /\ Raised(p)
        /\ frame[p].lb_error # "none"
        /\ frame[p].wh_outcome = "error"
        /\ ret[p].error = WAREHOUSE

\* C3: counting from a closed circuit with counter 0, the circuit is open
\* exactly when failure_threshold consecutive primary attempts have failed
\* (and been recorded); a call that finds the circuit open for less than
\* reset_timeout never invokes the primary executor.
C3_OpensAtThresholdAndSkipsPrimary ==
    /\ (clean /\ \A p \in Procs : pc[p] # "except")
          => (circuit_open <=> streak >= failure_threshold)
    /\ \A p \in Procs :
          frame[p].gate = "fresh"
          => /\ frame[p].lb_calls = 0
             /\ pc[p] \notin {"getconn", "executing", "except"}

C3_Witness ==
    \E p \in Procs :
        /\ clean
        /\ streak = failure_threshold
        /\ circuit_open
        /\ Returned(p)
        /\ frame[p].gate = "fresh"
        /\ frame[p].prefer_lakebase
        /\ frame[p].lookup # "hit"
        /\ frame[p].lb_calls = 0
        /\ frame[p].wh_calls = 1

\* C4 as stated: a call that prefers the primary and finds the circuit open
\* with reset_timeout elapsed invokes the primary executor at least once.
C4_Original ==
    \A p \in Procs :
        (pc[p] = "done" /\ frame[p].prefer_lakebase
            /\ frame[p].gate \in {"limit", "expired"})
        => frame[p].lb_calls >= 1

\* C4 amended: a call that prefers the primary, is not served from the cache
\* and finds the circuit open for strictly more than reset_timeout invokes the
\* primary executor exactly once.
C4_ProbeAfterTimeout ==
    \A p \in Procs :
        (pc[p] = "done" /\ frame[p].prefer_lakebase /\ frame[p].lookup # "hit"
            /\ frame[p].gate = "expired")
        => frame[p].lb_calls = 1

C4_Witness ==
    \E p \in Procs :
        /\ pc[p] = "done"
        /\ frame[p].prefer_lakebase
        /\ frame[p].gate = "expired"
        /\ frame[p].lb_calls = 1

\* C5: after a call whose primary execution succeeded the failure counter is 0.
C5_SuccessResetsCounter ==
    \A p \in Procs :
        (Returned(p) /\ frame[p].lb_calls = 1 /\ frame[p].lb_error = "none")
        => lakebase_failures = 0

\* C6 as stated: the open flag is true iff the counter has reached the
\* threshold and reset_timeout has not elapsed since the recorded opening time.
C6_Original ==
    circuit_open <=> (/\ lakebase_failures >= failure_threshold
                      /\ now - circuit_open_time < circuit_reset_timeout)

\* C6 amended: between non-overlapping calls and at every step of one, the
\* open flag is true iff the counter has reached the threshold; the flag is
\* cleared (with the counter) by an availability check, not by the clock.
C6_OpenIffThreshold ==
    circuit_open <=> lakebase_failures >= failure_threshold

C6_Witness ==
    /\ circuit_open
    /\ lakebase_failures >= failure_threshold
    /\ now - circuit_open_time > circuit_reset_timeout

\* C7: a lookup that finds an entry stored at time t returns the stored result
\* if now < t + ttl, and otherwise misses and removes the entry; so a call
\* served from the cache returns an entry younger than ttl.
C7_LookupStep(p) ==
    LET k == get_cache_key(frame[p].query, frame[p].params)
        e == cache[k]
    IN  (pc[p] = "lookup" /\ pc'[p] # "lookup" /\ e # NoEntry)
        => IF now < e.timestamp + cache_ttl
           THEN /\ pc'[p] = "done"
                /\ ret'[p].kind = "return"
                /\ ret'[p].result.source = e.result.source
                /\ ret'[p].result.data = e.result.data
                /\ cache'[k] # NoEntry
                /\ cache'[k].timestamp = e.timestamp
           ELSE /\ pc'[p] = "select"
                /\ ret'[p].kind = "none"
                /\ cache'[k] = NoEntry

C7_CacheTtl ==
    /\ [][\A p \in Procs : C7_LookupStep(p)]_vars
    /\ [](\A p \in Procs :
            (pc[p] = "done" /\ frame[p].lookup = "hit")
            => /\ cache[frame[p].cache_key] # NoEntry
               /\ now - cache[frame[p].cache_key].timestamp < cache_ttl)

C7_Witness ==
    \E p \in Procs :
        /\ pc[p] = "select"
        /\ frame[p].lookup = "expired"
        /\ cache[frame[p].cache_key] = NoEntry

\* The second call of a pair: same query and params as prev, use_cache, past
\* its cache lookup, issued less than ttl after prev (no clear_cache since).
SecondOfPair(p) ==
    /\ prev # NoPrev
    /\ pc[p] \notin {"idle", "lookup"}
    /\ frame[p].use_cache
    /\ Input(p) = prev.data
    /\ now - prev.t < cache_ttl

\* C8 as stated: the two calls invoke the executors exactly once in total and
\* the second is served from the cache.
C8_Original ==
    \A p \in Procs :
        (SecondOfPair(p) /\ pc[p] = "done")
        => /\ frame[p].lookup = "hit"
           /\ prev.calls + frame[p].lb_calls + frame[p].wh_calls = 1

\* C8 amended: when the first call missed the cache and succeeded, the second
\* call is served from the cache: it invokes no executor and returns the
\* result the first call stored.
C8_SecondCallServedFromCache ==
    \A p \in Procs :
        (SecondOfPair(p) /\ prev.calls >= 1)
        => /\ pc[p] = "done"
           /\ frame[p].lookup = "hit"
           /\ frame[p].lb_calls = 0
           /\ frame[p].wh_calls = 0
           /\ ret[p].kind = "return"
           /\ ret[p].result.data = prev.data
           /\ ret[p].result.from_cache

C8_Witness ==
    \E p \in Procs :
        /\ SecondOfPair(p)
        /\ prev.calls = 1
        /\ now - prev.t > 0
        /\ Returned(p)
        /\ frame[p].lookup = "hit"

\* C10: a call whose primary attempt failed has invoked the primary once,
\* recorded exactly one failure, and ends with exactly one fallback execution
\* whose outcome is the call's outcome; no call invokes the primary twice or
\* raises the primary's error.
C10_PrimaryFailureAbsorbed ==
    \A p \in Procs :
        /\ frame[p].lb_calls <= 1
        /\ ret[p].error # LAKEBASE
        /\ (frame[p].lb_error # "none" /\ pc[p] \in {"warehouse", "done"})
              => lakebase_failures = frame[p].failures_before + 1
        /\ (frame[p].lb_error # "none" /\ pc[p] = "done")
              => /\ frame[p].lb_calls = 1
                 /\ frame[p].wh_calls = 1
                 /\ frame[p].wh_outcome # "none"

C10_Witness ==
    \E p \in Procs :
        /\ pc[p] = "done"
        /\ frame[p].lb_error = "pool"
        /\ frame[p].wh_calls = 1
        /\ lakebase_failures = frame[p].failures_before + 1

\* Positions where `old` occurs in s.
Occurrences(s, old) ==
    {i \in 1..(Len(s) - Len(old) + 1) : SubSeq(s, i, i + Len(old) - 1) = old}

TranslatorKeys(catalog, schema) ==
    {TABLE_MAPPINGS[i][1] : i \in 1..Len(TABLE_MAPPINGS)} \cup {ConfigPrefix(catalog, schema)}

\* Every logical identifier (and the configured prefix) in s starts the text or
\* follows a blank: it is not glued to a preceding word, "." or "_".
Delimited(s, catalog, schema) ==
    \A k \in TranslatorKeys(catalog, schema) :
        \A i \in Occurrences(s, k) : i = 1 \/ s[i - 1] = " "

\* C9 as stated: translating twice gives the same text as translating once,
\* for every text and every catalog/schema pair.
C9_Original ==
    Len(translations) = 2 => translations[2] = translations[1]

\* C9 amended: with the default catalog/schema pair, translating twice gives
\* the same text as translating once for every text in which each logical
\* identifier and each catalog.schema prefix starts the text or follows a
\* character that is not part of a name (not a letter, digit, "_" or ".").
C9_IdempotentOnDelimitedText ==
    (/\ Len(translations) = 2
     /\ config = DefaultConfig
     /\ Delimited(text, config[1], config[2]))
    => translations[2] = translations[1]

C9_Witness ==
    /\ Len(translations) = 2
    /\ config = DefaultConfig
    /\ Delimited(text, config[1], config[2])
    /\ Occurrences(text, TABLE_MAPPINGS[1][1]) # {}
    /\ Occurrences(text, ConfigPrefix(config[1], config[2])) # {}
    /\ translations[1] # text
    /\ translations[2] = translations[1]

\* C11 as stated: reading lakebase_available or current_source only observes
\* the breaker, so a read leaves the failure counter, the open flag and the
\* opened-at time unchanged.
C11_Original == [][ReadAvailable => UNCHANGED breaker]_vars

\* C11, amended: the breaker changes in two ways only.  A failed primary
\* attempt recorded by execute_query adds one to the counter; an evaluation of
\* the availability check more than circuit_reset_timeout after the circuit
\* opened closes the circuit and zeroes the counter, the opened-at time
\* staying as it was.  Reading the property is such an evaluation: it changes
\* the breaker exactly when the circuit has been open for longer than the
\* timeout.
C11_BreakerChanges ==
    /\ [][breaker' # breaker =>
            \/ /\ \E p \in Procs : pc[p] = "except" /\ pc'[p] # "except"
               /\ lakebase_failures' = lakebase_failures + 1
            \/ /\ circuit_open
               /\ now - circuit_open_time > circuit_reset_timeout
               /\ ~circuit_open'
               /\ lakebase_failures' = 0
               /\ circuit_open_time' = circuit_open_time]_vars
    /\ [][ReadAvailable =>
            (breaker' # breaker <=>
                (lakebase_flag /\ circuit_open
                 /\ now - circuit_open_time > circuit_reset_timeout))]_vars

C11_Witness ==
    /\ AllIdle
    /\ observed = "reset"
    /\ ~circuit_open
    /\ lakebase_failures = 0

\* C12: an availability check made when the circuit has been open for longer
\* than circuit_reset_timeout closes the circuit and zeroes the counter; a call
\* whose check did so and whose primary attempt then failed ends with the
\* circuit closed and the counter at 1; the counter grows by one per recorded
\* failure, and the circuit opens only at a step that brings the counter to
\* failure_threshold or more.
C12_ResetOpensFreshWindow ==
    /\ [][(/\ lakebase_flag /\ circuit_open
           /\ now - circuit_open_time > circuit_reset_timeout
           /\ \/ ReadAvailable
              \/ \E p \in Procs : frame[p].prefer_lakebase /\ Select(p))
          => (~circuit_open' /\ lakebase_failures' = 0)]_vars
    /\ [](\A p \in Procs :
            (/\ pc[p] \in {"warehouse", "done"}
             /\ frame[p].gate = "expired"
             /\ frame[p].lb_error # "none")
            => (/\ frame[p].failures_before = 0
                /\ lakebase_failures = 1
                /\ ~circuit_open))
    /\ [][(lakebase_failures' > lakebase_failures =>
                /\ lakebase_failures' = lakebase_failures + 1
                /\ \E p \in Procs : pc[p] = "except")
          /\ (~circuit_open /\ circuit_open' =>
                /\ lakebase_failures' >= failure_threshold
                /\ lakebase_failures' = lakebase_failures + 1)]_vars

C12_Witness ==
    \E p \in Procs :
        /\ pc[p] = "done"
        /\ frame[p].gate = "expired"
        /\ frame[p].lb_error # "none"
        /\ frame[p].failures_before = 0
        /\ lakebase_failures = 1
        /\ ~circuit_open

\* C18: a call with use_cache = False takes no step that changes the cache,
\* never looks the key up, and ends having executed a backend, also when a
\* fresh entry for its query and params is in the cache.
C18_NoCacheWhenDisabled ==
    /\ [][\A p \in Procs :
            (pc[p] # "idle" /\ ~frame[p].use_cache) => cache' = cache]_vars
    /\ [](\A p \in Procs :
            (pc[p] = "done" /\ ~frame[p].use_cache)
            => (/\ frame[p].lookup = "none"
                /\ frame[p].lb_calls + frame[p].wh_calls >= 1
                /\ ret[p].kind = "return" => ~ret[p].result.from_cache))

C18_Witness ==
    \E p \in Procs :
        /\ Returned(p)
        /\ ~frame[p].use_cache
        /\ LET cache_key == get_cache_key(frame[p].query, frame[p].params)
           IN  /\ cache[cache_key] # NoEntry
               /\ CacheValid(cache[cache_key].timestamp)

\* C19: a call with prefer_lakebase = False takes no step that changes the
\* failure counter, the open flag or the opened-at time, and never reaches
\* the primary executor, also when the circuit has been open for longer than
\* circuit_reset_timeout.
C19_NoPrimaryWhenNotPreferred ==
    /\ [][\A p \in Procs :
            (pc[p] # "idle" /\ ~frame[p].prefer_lakebase) => UNCHANGED breaker]_vars
    /\ [](\A p \in Procs :
            (pc[p] # "idle" /\ ~frame[p].prefer_lakebase)
            => (/\ pc[p] \notin {"getconn", "executing", "except"}
                /\ frame[p].lb_calls = 0
                /\ frame[p].lb_error = "none"))

C19_Witness ==
    \E p \in Procs :
        /\ pc[p] = "done"
        /\ ~frame[p].prefer_lakebase
        /\ frame[p].wh_calls = 1
        /\ frame[p].gate = "expired"
        /\ lakebase_flag
        /\ circuit_open

\* C13: check_table_access raises nothing and returns one entry per table
\* of tables_to_check, in that order; an entry is inaccessible, with an error
\* string, exactly when execute_query raised for its table (that is, when the
\* warehouse failed in that probe), whatever the entries before it are; the
\* cache stays as the scan found it.
C13_ScanReportsEveryTable ==
    /\ scan.state # "raised"
    /\ scan.state # "off" => cache = scan.before
    /\ scan.state = "finished" =>
        /\ Len(scan.results) = Len(tables_to_check)
        /\ \A i \in 1..Len(scan.results) :
              /\ scan.results[i].table = tables_to_check[i].table
              /\ scan.results[i].description = tables_to_check[i].description
              /\ scan.results[i].accessible <=> scan.results[i].error = "none"
              /\ scan.results[i].accessible <=>
                    scan.results[i].history.wh_outcome # "error"

C13_Witness ==
    /\ scan.state = "finished"
    /\ ~scan.results[1].accessible
    /\ scan.results[2].accessible
    /\ ~scan.results[3].accessible
    /\ scan.results[4].accessible
    /\ \E k \in Keys : cache[k] # NoEntry

\* C14 as stated: with the pool initialised, get_performance_comparison
\* invokes both executors, also while the circuit is open.
C14_Original ==
    (perf.state = "finished" /\ lakebase_flag)
    => (perf.lakebase # None /\ perf.warehouse # None)

\* C14, amended: get_performance_comparison always invokes the warehouse
\* executor; it invokes the primary executor exactly when the pool was
\* initialised and the circuit, at the availability check, is closed or has
\* been open for longer than circuit_reset_timeout (the check then closes it);
\* while the primary probe runs the breaker is left alone, so a failed probe
\* is not recorded.
C14_ProbeHonoursBreaker ==
    /\ [](perf.state = "finished" =>
            /\ perf.warehouse # None
            /\ perf.lakebase # None <=>
                    (lakebase_flag /\ perf.gate \in {"closed", "expired"})
            /\ (lakebase_flag /\ perf.gate = "expired") =>
                    (~circuit_open /\ lakebase_failures = 0))
    /\ [][perf.state \in {"getconn", "executing"} => UNCHANGED breaker]_vars

C14_Witness ==
    /\ perf.state = "finished"
    /\ lakebase_flag
    /\ lakebase_pool = "open"
    /\ perf.gate = "fresh"
    /\ perf.warehouse = "success"
    /\ perf.lakebase = None

\* C15: no call of close() raises, whatever the state of the pool.
C15_CloseNeverRaises == ~close_error

\* C17: the connections checked out of the pool are those of the primary
\* executions in flight, one each: a connection taken by getconn() is given
\* back by the step that ends the execution, on success and on error.
C17_ConnectionsReturned ==
    checked_out = Cardinality({p \in Procs : pc[p] = "executing"})
                  + (IF perf.state = "executing" THEN 1 ELSE 0)

C17_Witness ==
    /\ checked_out = 0
    /\ \E p \in Procs : pc[p] = "except" /\ frame[p].lb_error = "stmt"

\* C16: with calls interleaved, a call that raises raises the error of a
\* warehouse execution that failed in that call, and a result served from the
\* cache is a result a backend produced for the same query and params.
C16_RacesAreBenign ==
    \A p \in Threads :
        /\ Raised(p) => (ret[p].error = WAREHOUSE /\ frame[p].wh_outcome = "error")
        /\ (Returned(p) /\ frame[p].lookup = "hit") =>
              \E source \in {LAKEBASE, WAREHOUSE} :
                  ret[p].result = [QueryResult(source, frame[p].query, frame[p].params)
                                       EXCEPT !.from_cache = TRUE]

\* C20: the result a call returns has from_cache = True exactly when the
\* call was served from the cache, also while other calls hit the entry.
C20_FromCacheIffHit ==
    \A p \in Threads :
        Returned(p) => (ret[p].result.from_cache <=> frame[p].lookup = "hit")

\* C21: a call that raises has failed in the warehouse and leaves no entry
\* under its key; during a call the cache changes only by the lookup (which
\* marks a fresh entry or evicts the expired entry of the looked-up key) and
\* by a step that ends the call with a result; and the primary failure of a
\* call that raises stays counted in the breaker.
C21_RaiseStoresNothing ==
    /\ [](\A p \in Procs :
            Raised(p) =>
                /\ frame[p].wh_outcome = "error"
                /\ frame[p].use_cache => cache[frame[p].cache_key] = NoEntry
                /\ frame[p].lb_error # "none" =>
                        lakebase_failures = frame[p].failures_before + 1)
    /\ [][\A p \in Procs :
            (pc[p] \notin {"idle", "done"} /\ cache' # cache) =>
                \/ /\ pc[p] = "lookup"
                   /\ LET k == get_cache_key(frame[p].query, frame[p].params)
                      IN  /\ \A j \in Keys \ {k} : cache'[j] = cache[j]
                          /\ pc'[p] = "select" =>
                                /\ cache[k] # NoEntry
                                /\ ~CacheValid(cache[k].timestamp)
                                /\ cache'[k] = NoEntry
                \/ pc'[p] = "done" /\ ret'[p].kind = "return"]_vars

C21_Witness ==
    \E p \in Procs :
        /\ Raised(p)
        /\ frame[p].use_cache
        /\ frame[p].lookup = "expired"
        /\ frame[p].lb_error # "none"
        /\ \E k \in Keys : cache[k] # NoEntry

\* C22: different pairs (query, params) have different cache keys, so a
\* result served from the cache was produced by executing the query of the
\* call with the params of the call.
C22_KeySeparatesPairs ==
    \A p \in Procs :
        (Returned(p) /\ frame[p].lookup = "hit")
        => ret[p].result.data = <<frame[p].query, frame[p].params>>

\* C23: clear_cache() leaves no entry, and a lookup of a key without entry
\* misses; an entry disappears only in a clear_cache() or when a lookup of
\* its own key finds it expired.
C23_OnlyClearAndEvictionRemove ==
    /\ [][ClearCache => \A k \in Keys : cache'[k] = NoEntry]_vars
    /\ [][\A p \in Procs :
            (/\ pc[p] = "lookup"
             /\ cache[get_cache_key(frame[p].query, frame[p].params)] = NoEntry)
            => pc'[p] \in {"lookup", "select"}]_vars
    /\ [][\A k \in Keys :
            (cache[k] # NoEntry /\ cache'[k] = NoEntry) =>
                \/ /\ AllIdle /\ AllIdle'
                   /\ \A j \in Keys : cache'[j] = NoEntry
                \/ \E p \in Procs :
                      /\ pc[p] = "lookup"
                      /\ get_cache_key(frame[p].query, frame[p].params) = k
                      /\ ~CacheValid(cache[k].timestamp)]_vars

C23_Witness ==
    /\ observed = "cleared"
    /\ now > 0
    /\ \A k \in Keys : cache[k] = NoEntry

\* C24: with the public operations called one at a time, the failure
\* counter stays between 0 and failure_threshold, and the circuit is open
\* exactly when the counter equals failure_threshold.
C24_CounterBounded ==
    /\ lakebase_failures >= 0
    /\ lakebase_failures <= failure_threshold
    /\ circuit_open <=> lakebase_failures = failure_threshold

C24_Witness ==
    /\ scan.state = "finished"
    /\ circuit_open
    /\ lakebase_failures = failure_threshold
    /\ now > circuit_open_time

\* A scan that began with the circuit closed and the counter at 0, and in
\* which every primary attempt failed.
PrimaryFailsThroughScan ==
    /\ scan.state = "finished"
    /\ scan.results[1].history.gate = "closed"
    /\ scan.results[1].history.failures_before = 0
    /\ \A i \in 1..(failure_threshold) : scan.results[i].history.lb_error # "none"
    /\ \A i \in 1..Len(scan.results) :
          scan.results[i].history.lb_calls = 1
          => scan.results[i].history.lb_error # "none"

\* C25 as stated: in such a scan the fourth probe does not invoke the
\* primary executor.
C25_Original ==
    PrimaryFailsThroughScan => scan.results[failure_threshold + 1].history.lb_calls = 0

\* C25, amended: in such a scan each of the first three probes adds one to
\* the counter and the third opens the circuit; the fourth probe does not
\* invoke the primary executor if at most circuit_reset_timeout has passed
\* since the circuit opened, and invokes it (the circuit being reset) if more
\* has passed.
C25_ScanOpensCircuit ==
    PrimaryFailsThroughScan =>
        /\ \A i \in 1..failure_threshold :
              /\ scan.results[i].history.gate = "closed"
              /\ scan.results[i].history.failures_before = i - 1
        /\ LET fourth == scan.results[failure_threshold + 1].history
           IN  /\ fourth.gate \in {"fresh", "limit", "expired"}
               /\ fourth.gate \in {"fresh", "limit"} => fourth.lb_calls = 0
               /\ fourth.gate = "expired" => fourth.lb_calls = 1

C25_Witness ==
    /\ PrimaryFailsThroughScan
    /\ scan.results[failure_threshold + 1].history.gate = "limit"
    /\ scan.results[failure_threshold + 1].history.lb_calls = 0
    /\ circuit_open

\* C26: while get_performance_comparison runs, the cache does not change,
\* the failure counter does not grow, the circuit is not opened and the
\* opened-at time is not written; the call ends with a status for the
\* warehouse and, if the primary was tried, a status for the primary, and
\* raises nothing.
C26_ComparisonLeavesBreaker ==
    /\ [][perf.state # "off" =>
            /\ cache' = cache
            /\ lakebase_failures' <= lakebase_failures
            /\ circuit_open' => circuit_open
            /\ circuit_open_time' = circuit_open_time]_vars
    /\ [](/\ perf.state # "raised"
          /\ perf.state = "finished" =>
                /\ perf.warehouse \in {"success", "error"}
                /\ perf.lakebase \in {None, "success", "error"})

C26_Witness ==
    /\ perf.state = "finished"
    /\ perf.warehouse = "error"
    /\ perf.lakebase = "error"
    /\ lakebase_failures = failure_threshold - 1
    /\ ~circuit_open
    /\ \E k \in Keys : cache[k] # NoEntry

\* C28: on a data layer whose pool was never initialised, lakebase_available
\* is false and current_source is the warehouse, no operation is at or past
\* the primary executor, and the breaker keeps its initial values.
C28_NoPoolNoPrimary ==
    ~lakebase_flag =>
        /\ ~lakebase_available_value
        /\ current_source_value = WAREHOUSE
        /\ lakebase_failures = 0 /\ ~circuit_open /\ circuit_open_time = 0
        /\ checked_out = 0
        /\ \A p \in Procs :
              /\ pc[p] \notin {"getconn", "executing", "except"}
              /\ frame[p].lb_calls = 0 /\ frame[p].lb_error = "none"
        /\ perf.state \notin {"getconn", "executing"}
        /\ perf.lakebase = None
        /\ \A i \in 1..Len(scan.results) : scan.results[i].history.lb_calls = 0

C28_Witness ==
    /\ ~lakebase_flag
    /\ lakebase_pool = "none"
    /\ scan.state = "finished"
    /\ now > 0

\* C29: a result that a call obtained from a backend names that backend,
\* LAKEBASE exactly when its primary execution succeeded and WAREHOUSE exactly
\* when its warehouse execution succeeded; an entry is stored with the source
\* of the execution that stores it, a lookup does not change it, and a hit
\* returns the source of the entry.
C29_SourceNamesProducer ==
    /\ [](\A p \in Procs :
            Returned(p) =>
                IF frame[p].lookup = "hit"
                THEN /\ cache[frame[p].cache_key] # NoEntry
                     /\ ret[p].result.source = cache[frame[p].cache_key].result.source
                ELSE /\ ret[p].result.source = LAKEBASE <=>
                            (frame[p].lb_calls = 1 /\ frame[p].lb_error = "none")
                     /\ ret[p].result.source = WAREHOUSE <=>
                            frame[p].wh_outcome = "ok")
    /\ [][\A p \in Procs, k \in Keys :
            (cache'[k] # cache[k] /\ cache'[k] # NoEntry) =>
                CASE pc[p] = "executing" -> cache'[k].result.source = LAKEBASE
                  [] pc[p] = "warehouse" -> cache'[k].result.source = WAREHOUSE
                  [] OTHER -> /\ pc[p] = "lookup"
                              /\ cache[k] # NoEntry
                              /\ cache'[k].result.source = cache[k].result.source]_vars

C29_Witness ==
    \E p \in Procs :
        /\ Returned(p)
        /\ frame[p].lookup = "hit"
        /\ ret[p].result.source = LAKEBASE
        /\ ~frame[p].prefer_lakebase
        /\ circuit_open

\* C27: with calls interleaved, no step taken while the circuit is open
\* changes the opened-at time.
C27_OpenTimeStable ==
    [][(circuit_open /\ circuit_open') =>
            circuit_open_time' = circuit_open_time]_vars

\* C30: once the circuit is open and the primary has recovered, a state is
\* reached where the circuit is closed and a call returns a result that the
\* primary executor produced in that call.
Recovered ==
    /\ ~circuit_open
    /\ \E p \in Procs :
          /\ Returned(p)
          /\ frame[p].lb_calls = 1
          /\ ret[p].result.source = LAKEBASE

C30_RecoveryReached == (circuit_open /\ healed) ~> Recovered

C30_Witness ==
    /\ healed
    /\ Recovered
    /\ \E p \in Procs : frame[p].gate = "expired"

====
